---- MODULE Spec2Model ----
(***************************************************************************)
(* Draupnir: rendering of a DeadDocument tree to Matrix events.            *)
(*                                                                         *)
(* renderMatrix drives two FringeWalkers, one per format, over the same    *)
(* tree, feeds one PagedDuplexStream per format and sends the pages of     *)
(* both streams through a callback.  The walker, the stream and the two    *)
(* renderers are imported from DeadDocument, PagedDuplexStream,            *)
(* DeadDocumentMarkdown and DeadDocumentHtml; they are modelled from their *)
(* description in the specification (sections 3, 4.1, 4.2 and 4.3).        *)
(*                                                                         *)
(* Texts are sequences of one-character strings, so that the size of a     *)
(* text is its length and concatenation is \o.                             *)
(***************************************************************************)
EXTENDS Integers, Sequences, FiniteSets, TLC

\* ------------------------------------------------------------------ bounds
\* The largest number of nodes of a document tree.
MaxNodes == 5
\* The size limits of a page: every limit up to MaxLimit, and one limit that
\* holds the whole rendering of every tree of the model.
MaxLimit == 9
LargeLimit == 40
SizeLimits == 1..MaxLimit \cup {LargeLimit}
\* The largest number of nodes of a tree walked by a pair of walkers that may
\* disagree on their fringe.
LockstepNodes == 3
\* The most calls of Draupnir.start that are not undone by a call of stop.
MaxStarts == 2
\* The most room ids passed to logMessage as additionalRoomIds.
MaxRoomIds == 2

\* ------------------------------------------------------------- document tree
\* A tree is a record [n, parent, tag, payload]: nodes are 1..n, node 1 is the
\* root (parent 0), the children of a node are ordered by their number, and
\* a node's number is its identity (reference).
LeafTags == {"Text"}

\* The terminal marker of a walker (undefined), and the absence of a node.
NoNode == 0

\* The literal payloads of the text leaves.
Payloads == << <<"a">>, <<"<">> >>

\* The tags of the inner nodes that are not the root.
InnerTags == <<"Paragraph", "Bold">>

\* q is node i or one of its ancestors.
RECURSIVE OnPathToRoot(_, _, _)
OnPathToRoot(p, i, q) == i # 0 /\ (q = i \/ OnPathToRoot(p, p[i], q))

\* The nodes are numbered in document order (depth first): the parent of a
\* node is the node before it or one of that node's ancestors.
ParentVectors(n) ==
  { p \in [1..n -> 0..(n - 1)] :
      p[1] = 0 /\ \A i \in 2..n : OnPathToRoot(p, i - 1, p[i]) }

HasChildren(p, n, i) == \E j \in 1..n : p[j] = i

\* makeDocumentNode / makeLeafNode / addChild: a node that got children is a
\* container; a string child becomes a Text leaf carrying the string.
MakeTree(n, p, c, rootTag) ==
  [ n |-> n,
    parent |-> p,
    tag |-> [i \in 1..n |->
               IF i = 1 THEN rootTag
               ELSE IF HasChildren(p, n, i) THEN InnerTags[c[i]]
               ELSE "Text"],
    payload |-> [i \in 1..n |->
               IF i # 1 /\ ~HasChildren(p, n, i) THEN Payloads[c[i]] ELSE << >>] ]

Trees ==
  UNION { { MakeTree(n, p, c, rt) :
              p \in ParentVectors(n),
              c \in [1..n -> 1..2],
              rt \in {"Root", "Paragraph"} } : n \in 1..MaxNodes }

IsLeaf(tr, i) == tr.tag[i] \in LeafTags

\* The children of node i, in their order.
ChildSeq(tr, i) == SelectSeq([k \in 1..tr.n |-> k], LAMBDA j : tr.parent[j] = i)

RECURSIVE Flatten(_)
Flatten(ss) == IF ss = << >> THEN << >> ELSE Head(ss) \o Flatten(Tail(ss))

\* ------------------------------------------------------------------ renderers
\* The renderer contract: per tag, the fragment emitted on entering and on
\* leaving a node.  A Text leaf emits its payload on entry only.
MARKDOWN_RENDERER == "markdown"
HTML_RENDERER == "html"

EscapeChar(ch) ==
  CASE ch = "<" -> <<"&", "l", "t", ";">>
    [] ch = ">" -> <<"&", "g", "t", ";">>
    [] ch = "&" -> <<"&", "a", "m", "p", ";">>
    [] OTHER -> <<ch>>

\* The rich renderer escapes the markup-significant characters of a payload.
EscapeHtml(text) == Flatten([k \in 1..Len(text) |-> EscapeChar(text[k])])

OnEnter(renderer, tr, i) ==
  IF renderer = MARKDOWN_RENDERER
  THEN CASE tr.tag[i] = "Bold" -> <<"*", "*">>
         [] tr.tag[i] = "Text" -> tr.payload[i]
         [] OTHER -> << >>
  ELSE CASE tr.tag[i] = "Paragraph" -> <<"<", "p", ">">>
         [] tr.tag[i] = "Bold" -> <<"<", "b", ">">>
         [] tr.tag[i] = "Text" -> EscapeHtml(tr.payload[i])
         [] OTHER -> << >>

OnExit(renderer, tr, i) ==
  IF renderer = MARKDOWN_RENDERER
  THEN CASE tr.tag[i] = "Paragraph" -> <<"\n", "\n">>
         [] tr.tag[i] = "Bold" -> <<"*", "*">>
         [] OTHER -> << >>
  ELSE CASE tr.tag[i] = "Paragraph" -> <<"<", "/", "p", ">">>
         [] tr.tag[i] = "Bold" -> <<"<", "/", "b", ">">>
         [] OTHER -> << >>

\* The full single-pass rendering of the subtree of node i.
RECURSIVE RenderNode(_, _, _)
RenderNode(renderer, tr, i) ==
  LET cs == ChildSeq(tr, i)
  IN OnEnter(renderer, tr, i)
     \o Flatten([k \in 1..Len(cs) |-> RenderNode(renderer, tr, cs[k])])
     \o OnExit(renderer, tr, i)

FullRendering(renderer, tr) == RenderNode(renderer, tr, 1)

\* ---------------------------------------------------------------- the fringe
\* The fringe events of the subtree of node i in depth-first order: a
\* container is entered before and left after all events of its descendants,
\* a leaf is one event.
\* Mutant of Fringe: a container is not reported when it is left.
RECURSIVE Fringe_NoExit(_, _)
Fringe_NoExit(tr, i) ==
  IF IsLeaf(tr, i) THEN << [node |-> i, phase |-> "leaf"] >>
  ELSE LET cs == ChildSeq(tr, i)
       IN << [node |-> i, phase |-> "enter"] >>
          \o Flatten([k \in 1..Len(cs) |-> Fringe_NoExit(tr, cs[k])])

RECURSIVE Fringe(_, _)
Fringe(tr, i) ==
  IF IsLeaf(tr, i) THEN << [node |-> i, phase |-> "leaf"] >>
  ELSE LET cs == ChildSeq(tr, i)
       IN << [node |-> i, phase |-> "enter"] >>
          \o Flatten([k \in 1..Len(cs) |-> Fringe(tr, cs[k])])
          \o << [node |-> i, phase |-> "exit"] >>

\* Bold is atomic: its markers and its content are one unit of output.
AtomicTags == {"Bold"}

RECURSIVE InsideAtomic(_, _)
InsideAtomic(tr, i) ==
  /\ tr.parent[i] # 0
  /\ \/ tr.tag[tr.parent[i]] \in AtomicTags
     \/ InsideAtomic(tr, tr.parent[i])

\* The fringe as a walker of the given mode reports it.  "coalesced": a leaf
\* is one event; "split": a leaf is entered and left in two events;
\* "truncated": a defective walker that ends before the exit of the root.
WalkerModes == {"coalesced", "split", "truncated"}

RECURSIVE SplitFringe(_, _)
SplitFringe(tr, i) ==
  LET cs == ChildSeq(tr, i)
  IN << [node |-> i, phase |-> "enter"] >>
     \o Flatten([k \in 1..Len(cs) |-> SplitFringe(tr, cs[k])])
     \o << [node |-> i, phase |-> "exit"] >>

WalkerFringe(mode, tr) ==
  CASE mode = "split" -> SplitFringe(tr, 1)
    [] mode = "truncated" -> SubSeq(Fringe(tr, 1), 1, Len(Fringe(tr, 1)) - 1)
    [] OTHER -> Fringe(tr, 1)

\* The events after which the walker invokes the commit hook: a leaf, and
\* the exit of a container, unless the node lies inside an atomic node.
Commits(tr, e) == e.phase \in {"leaf", "exit"} /\ ~InsideAtomic(tr, e.node)

\* --------------------------------------------------------- PagedDuplexStream
\* A stream holds the ready pages (oldest first), the committed region that
\* is not yet a page, and the pending text appended since the last commit.
\* The committed region and the pages are kept as sequences of segments
\* [node, text]: the text committed by one commit and the node it was
\* committed for (NoNode for text that was forced out uncommitted).
\* failed: a commit found no cut boundary at or before the size limit.
NewStream == [pages |-> << >>, cur |-> << >>, pending |-> << >>, failed |-> FALSE]

RECURSIVE Size(_)
Size(segs) == IF segs = << >> THEN 0 ELSE Len(Head(segs).text) + Size(Tail(segs))

PageText(segs) == Flatten([k \in 1..Len(segs) |-> segs[k].text])

\* append(text)
AppendText(s, text) == [s EXCEPT !.pending = @ \o text]

\* The committed region cur grown by seg: a page is ready once the committed
\* region reaches the limit, and it holds everything up to the best cut
\* boundary at or before the limit; what lies behind that boundary stays
\* in the committed region.  A segment longer than the limit has no cut
\* boundary at or before the limit: the stream fails.
Cut(s, seg, limit) ==
  LET all == Append(s.cur, seg)
  IN IF Size(all) < limit THEN [s EXCEPT !.cur = all, !.pending = << >>]
     ELSE IF Size(all) = limit
       THEN [s EXCEPT !.pages = Append(@, all), !.cur = << >>, !.pending = << >>]
     ELSE IF Len(seg.text) > limit
       THEN [s EXCEPT !.failed = TRUE]
     ELSE IF Len(seg.text) = limit
       THEN [s EXCEPT !.pages = @ \o <<s.cur, <<seg>> >>, !.cur = << >>,
                      !.pending = << >>]
     ELSE [s EXCEPT !.pages = Append(@, s.cur), !.cur = <<seg>>, !.pending = << >>]

\* commit(node): the end of the pending text becomes a safe cut point.
Commit(s, n, limit) == Cut(s, [node |-> n, text |-> s.pending], limit)

\* peekPage()
PeekPage(s) == Len(s.pages) > 0

\* readPage(): the page read, and the stream without it.  Pages are read
\* in the order they became ready (document order).
NoPage == [defined |-> FALSE, segs |-> << >>]

ReadPage(s) ==
  IF Len(s.pages) = 0 THEN [page |-> NoPage, stream |-> s]
  ELSE [page |-> [defined |-> TRUE, segs |-> Head(s.pages)],
        stream |-> [s EXCEPT !.pages = Tail(@)]]

\* ensureNewPage(): the remaining committed and pending content becomes a
\* ready page, even below the size limit.
EnsureNewPage(s, limit) ==
  LET c == IF s.pending = << >> THEN s
           ELSE Cut(s, [node |-> NoNode, text |-> s.pending], limit)
  IN IF c.failed \/ Size(c.cur) = 0 THEN c
     ELSE [c EXCEPT !.pages = Append(@, c.cur), !.cur = << >>]

\* ------------------------------------------------------------------- state
VARIABLES
  node,                 \* the document tree passed to renderMatrix
  sizeLimit,            \* the size limit of both streams
  pc,                   \* the position of renderMatrix
  markdownOutput,       \* the PagedDuplexStream of the markdown walker
  htmlOutput,           \* the PagedDuplexStream of the html walker
  markdownWalker,       \* [pos, done, calls]
  htmlWalker,           \* [pos, done, calls]
  currentMarkdownNode,  \* the node the markdown walker returned last
  currentHtmlNode,      \* the node the html walker returned last
  eventIds,             \* the event ids collected so far
  sent,                 \* the invocations of the send callback, in order
  error,                \* what renderMatrix threw, "none" while it has not
  other,                \* a second invocation of renderMatrix on the same
                        \* tree, while it is not the one that runs
  \* Draupnir
  listeners,            \* how often timelineEventListener is registered on
                        \* clientRooms for "timeline"
  reportPoller,         \* "absent", "stopped" or "running"
  starting,             \* the calls of start that await the report poll setting
  lastCall,             \* the last of start and stop that was called
  handled,              \* the last timeline event that clientRooms emitted
                        \* and what Draupnir invoked for it
  \* ManagementRoomOutput
  call,                 \* the arguments of the logMessage call and the config
  stack,                \* the frames of logMessage and replaceRoomIdsWithPills
  console,              \* the calls of the LogService functions, in order
  roomMessages,         \* the contents sent to the management room, in order
  sentry,               \* what was captured for Sentry, in order
  result                \* "idle", "running", "returned" or "thrown"

renderVars == << node, sizeLimit, pc, markdownOutput, htmlOutput,
                 markdownWalker, htmlWalker, currentMarkdownNode,
                 currentHtmlNode, eventIds, sent, error, other >>

draupnirVars == << listeners, reportPoller, starting, lastCall, handled >>

outputVars == << call, stack, console, roomMessages, sentry, result >>

vars == << renderVars, draupnirVars, outputVars >>

\* The event ids the send callback may return.
EventIds == {"$e1", "$e2"}

\* ------------------------------------------------------------- FringeWalker
\* pos: the fringe events processed; done: the terminal marker was returned;
\* calls: the number of increment calls made; mode: how the walker reports
\* the fringe; phase: the phase of the event it processed last.
NewWalker == [pos |-> 0, done |-> FALSE, calls |-> 0, mode |-> "coalesced",
              phase |-> "none"]

\* renderMatrix's commitHook: commit the node on the stream of the context.
commitHook(commitNode, output, limit) == Commit(output, commitNode, limit)

\* increment(): process one fringe event, append its fragment to the output
\* of the context, invoke the commit hook where the event commits, and
\* return the node of the event; the terminal marker once the fringe is
\* exhausted.  misuse: increment was called after the terminal marker.
Increment(w, renderer, tr, output, limit) ==
  LET fr == WalkerFringe(w.mode, tr)
  IN IF w.pos >= Len(fr)
     THEN [walker |-> [w EXCEPT !.done = TRUE, !.calls = @ + 1,
                                !.phase = "terminal"],
           output |-> output, node |-> NoNode, misuse |-> w.done]
     ELSE LET e == fr[w.pos + 1]
              frag == IF e.phase = "exit" THEN OnExit(renderer, tr, e.node)
                      ELSE OnEnter(renderer, tr, e.node)
              written == AppendText(output, frag)
          IN [walker |-> [w EXCEPT !.pos = @ + 1, !.calls = @ + 1,
                                   !.phase = e.phase],
              output |-> IF Commits(tr, e)
                         THEN commitHook(e.node, written, limit)
                         ELSE written,
              node |-> e.node, misuse |-> FALSE]

\* ------------------------------------------------- Draupnir, as constructed
\* No timeline event was emitted yet.
NoEvent == [roomID |-> "", event |-> [type |-> ""], calls |-> 0,
            handleExternalInvite |-> 0, handleCommandMessageEvent |-> 0,
            reportManager |-> 0, addReactionToEvent |-> 0,
            reactionHandler |-> 0, protectedRoomsSet |-> 0]

\* The constructor: no listener is registered, and there is a report poller
\* if config.pollReports is set; it is not started.
DraupnirConstructed(pollReports) ==
  /\ listeners = 0
  /\ reportPoller = IF pollReports THEN "stopped" ELSE "absent"
  /\ starting = 0
  /\ lastCall = "none"
  /\ handled = NoEvent

\* ------------------------------------- ManagementRoomOutput, as constructed
NoCall == [level |-> "", module |-> "", message |-> "",
           additionalRoomIds |-> << >>, isRecursive |-> FALSE,
           verboseLogging |-> FALSE]

\* logMessage was not called.
OutputConstructed ==
  /\ call = NoCall
  /\ stack = << >>
  /\ console = << >>
  /\ roomMessages = << >>
  /\ sentry = << >>
  /\ result = "idle"

\* --------------------------------------------------------------- renderMatrix
\* The local state of an invocation that has not started: its position, and
\* the streams, walkers, nodes and ids it has once it has.
NewInvocation ==
  [ pc |-> "start", markdownOutput |-> NewStream, htmlOutput |-> NewStream,
    markdownWalker |-> NewWalker, htmlWalker |-> NewWalker,
    currentMarkdownNode |-> NoNode, currentHtmlNode |-> NoNode,
    eventIds |-> << >>, sent |-> << >>, error |-> "none" ]

Init ==
  /\ node \in Trees
  /\ sizeLimit \in SizeLimits
  /\ pc = "start"
  /\ markdownOutput = NewStream
  /\ htmlOutput = NewStream
  /\ markdownWalker = NewWalker
  /\ htmlWalker = NewWalker
  /\ currentMarkdownNode = NoNode
  /\ currentHtmlNode = NoNode
  /\ eventIds = << >>
  /\ sent = << >>
  /\ error = "none"
  /\ other = NewInvocation
  /\ DraupnirConstructed(FALSE)
  /\ OutputConstructed

\* Mutant of RootCheck: the tag of the node is not looked at.
RootCheck_AnyTag(tr) == TRUE

\* node.tag === NodeTag.Root
RootCheck(tr) == tr.tag[1] = "Root"

\* The root check; the streams and the walkers are constructed past it.

Start ==
  /\ pc = "start"
  /\ IF ~RootCheck(node)
     THEN /\ pc' = "thrown"
          /\ error' = "TypeError: no root"
     ELSE /\ pc' = "incrementMarkdown"
          /\ error' = error
  /\ UNCHANGED << draupnirVars, outputVars, other, node, sizeLimit, markdownOutput, htmlOutput, markdownWalker,
                  htmlWalker, currentMarkdownNode, currentHtmlNode, eventIds,
                  sent >>

\* currentMarkdownNode = markdownWalker.increment()
IncrementMarkdown ==
  /\ pc = "incrementMarkdown"
  /\ LET r == Increment(markdownWalker, MARKDOWN_RENDERER, node, markdownOutput,
                        sizeLimit)
     IN /\ markdownWalker' = r.walker
        /\ markdownOutput' = r.output
        /\ IF r.output.failed \/ r.misuse
           THEN /\ pc' = "thrown"
                /\ error' = IF r.misuse THEN "TypeError: walker exhausted"
                            ELSE "TypeError: commit too large"
                /\ UNCHANGED currentMarkdownNode
           ELSE /\ pc' = "incrementHtml"
                /\ currentMarkdownNode' = r.node
                /\ UNCHANGED error
  /\ UNCHANGED << draupnirVars, outputVars, other, node, sizeLimit, htmlOutput, htmlWalker, currentHtmlNode,
                  eventIds, sent >>

\* Mutant of IncrementHtml: the markdown walker is incremented once more in
\* place of the html walker.
IncrementHtml_MarkdownAgain ==
  /\ pc = "incrementHtml"
  /\ LET r == Increment(markdownWalker, MARKDOWN_RENDERER, node, markdownOutput,
                        sizeLimit)
     IN /\ markdownWalker' = r.walker
        /\ markdownOutput' = r.output
        /\ IF r.output.failed \/ r.misuse
           THEN /\ pc' = "thrown"
                /\ error' = IF r.misuse THEN "TypeError: walker exhausted"
                            ELSE "TypeError: commit too large"
                /\ UNCHANGED currentHtmlNode
           ELSE /\ pc' = "checkEqual"
                /\ currentHtmlNode' = r.node
                /\ UNCHANGED error
  /\ UNCHANGED << draupnirVars, outputVars, other, node, sizeLimit, htmlOutput, htmlWalker,
                  currentMarkdownNode, eventIds, sent >>

\* currentHtmlNode = htmlWalker.increment()
IncrementHtml ==
  /\ pc = "incrementHtml"
  /\ LET r == Increment(htmlWalker, HTML_RENDERER, node, htmlOutput, sizeLimit)
     IN /\ htmlWalker' = r.walker
        /\ htmlOutput' = r.output
        /\ IF r.output.failed \/ r.misuse
           THEN /\ pc' = "thrown"
                /\ error' = IF r.misuse THEN "TypeError: walker exhausted"
                            ELSE "TypeError: commit too large"
                /\ UNCHANGED currentHtmlNode
           ELSE /\ pc' = "checkEqual"
                /\ currentHtmlNode' = r.node
                /\ UNCHANGED error
  /\ UNCHANGED << draupnirVars, outputVars, other, node, sizeLimit, markdownOutput, markdownWalker,
                  currentMarkdownNode, eventIds, sent >>

\* Mutant of checkEqual: the two nodes are not compared.
checkEqual_Always(node1, node2) == TRUE

\* checkEqual(node1, node2): Object.is on the two nodes.
checkEqual(node1, node2) == node1 = node2

CheckEqual ==
  /\ pc = "checkEqual"
  /\ IF checkEqual(currentHtmlNode, currentMarkdownNode)
     THEN pc' = "while" /\ UNCHANGED error
     ELSE pc' = "thrown" /\ error' = "TypeError: walker bug"
  /\ UNCHANGED << draupnirVars, outputVars, other, node, sizeLimit, markdownOutput, htmlOutput, markdownWalker,
                  htmlWalker, currentMarkdownNode, currentHtmlNode, eventIds,
                  sent >>

\* Mutant of SomePeekPage: a page is taken to be ready after every step.
SomePeekPage_Always(html, markdown) == TRUE

\* outputs.some(o => o.peekPage())
SomePeekPage(html, markdown) == PeekPage(html) \/ PeekPage(markdown)

\* Mutant of CallSend: the callback is invoked and not awaited.
CallSend_NoAwait(html, markdown, where) ==
  LET m == ReadPage(markdown)
      h == ReadPage(html)
  IN /\ markdownOutput' = m.stream
     /\ htmlOutput' = h.stream
     /\ sent' = Append(sent, [text |-> m.page, html |-> h.page,
                              outcome |-> "inflight", id |-> "",
                              increments |-> markdownWalker.calls + htmlWalker.calls])
     /\ pc' = IF where = "awaitLoop" THEN "incrementMarkdown" ELSE "returned"
     /\ UNCHANGED error

\* cb(markdownOutput.readPage()!, htmlOutput.readPage()!): the invocation,
\* and the two streams after the pages were read.
CallSend(html, markdown, where) ==
  LET m == ReadPage(markdown)
      h == ReadPage(html)
  IN /\ markdownOutput' = m.stream
     /\ htmlOutput' = h.stream
     /\ sent' = Append(sent, [text |-> m.page, html |-> h.page,
                              outcome |-> "inflight", id |-> "",
                              increments |-> markdownWalker.calls + htmlWalker.calls])
     /\ pc' = where
     /\ UNCHANGED error

\* Mutant of WhileTest: the loop does not end at the terminal marker.
WhileTest_Always(htmlNode) == TRUE

\* while (currentHtmlNode !== undefined)
WhileTest(htmlNode) == htmlNode # NoNode

\* The test of the while loop and, when a page is ready, the synchronized
\* cut of both streams and the invocation of the send callback.
While ==
  /\ pc = "while"
  /\ IF ~WhileTest(currentHtmlNode)
     THEN /\ pc' = "flush"
          /\ UNCHANGED << markdownOutput, htmlOutput, sent, error >>
     ELSE IF SomePeekPage(htmlOutput, markdownOutput)
     THEN LET h == EnsureNewPage(htmlOutput, sizeLimit)
              m == IF h.failed THEN markdownOutput
                   ELSE EnsureNewPage(markdownOutput, sizeLimit)
          IN IF h.failed \/ m.failed
             THEN /\ pc' = "thrown"
                  /\ error' = "TypeError: commit too large"
                  /\ markdownOutput' = m
                  /\ htmlOutput' = h
                  /\ UNCHANGED sent
             ELSE CallSend(h, m, "awaitLoop")
     ELSE /\ pc' = "incrementMarkdown"
          /\ UNCHANGED << markdownOutput, htmlOutput, sent, error >>
  /\ UNCHANGED << draupnirVars, outputVars, other, node, sizeLimit, markdownWalker, htmlWalker,
                  currentMarkdownNode, currentHtmlNode, eventIds >>

\* Mutant of Flush: the content left after the loop is not sent.
Flush_NoFinalSend ==
  /\ pc = "flush"
  /\ pc' = "returned"
  /\ markdownOutput' = EnsureNewPage(markdownOutput, sizeLimit)
  /\ htmlOutput' = EnsureNewPage(htmlOutput, sizeLimit)
  /\ UNCHANGED << draupnirVars, outputVars, other, node, sizeLimit, markdownWalker, htmlWalker,
                  currentMarkdownNode, currentHtmlNode, eventIds, sent, error >>

\* Mutant of Flush: the streams are not forced to a page after the loop.
Flush_NoEnsure ==
  /\ pc = "flush"
  /\ IF SomePeekPage(htmlOutput, markdownOutput)
     THEN CallSend(htmlOutput, markdownOutput, "awaitFinal")
     ELSE /\ pc' = "returned"
          /\ UNCHANGED << markdownOutput, htmlOutput, sent, error >>
  /\ UNCHANGED << draupnirVars, outputVars, other, node, sizeLimit, markdownWalker, htmlWalker,
                  currentMarkdownNode, currentHtmlNode, eventIds >>

\* Mutant of Flush: the last send is made whether or not a page is ready.
Flush_AlwaysSend ==
  /\ pc = "flush"
  /\ LET h == EnsureNewPage(htmlOutput, sizeLimit)
         m == IF h.failed THEN markdownOutput
              ELSE EnsureNewPage(markdownOutput, sizeLimit)
     IN IF h.failed \/ m.failed
        THEN /\ pc' = "thrown"
             /\ error' = "TypeError: commit too large"
             /\ markdownOutput' = m
             /\ htmlOutput' = h
             /\ UNCHANGED sent
        ELSE CallSend(h, m, "awaitFinal")
  /\ UNCHANGED << draupnirVars, outputVars, other, node, sizeLimit, markdownWalker, htmlWalker,
                  currentMarkdownNode, currentHtmlNode, eventIds >>

\* After the loop: ensureNewPage on both streams and the last send.
Flush ==
  /\ pc = "flush"
  /\ LET h == EnsureNewPage(htmlOutput, sizeLimit)
         m == IF h.failed THEN markdownOutput
              ELSE EnsureNewPage(markdownOutput, sizeLimit)
     IN IF h.failed \/ m.failed
        THEN /\ pc' = "thrown"
             /\ error' = "TypeError: commit too large"
             /\ markdownOutput' = m
             /\ htmlOutput' = h
             /\ UNCHANGED sent
        ELSE IF SomePeekPage(h, m)
        THEN CallSend(h, m, "awaitFinal")
        ELSE /\ pc' = "returned"
             /\ markdownOutput' = m
             /\ htmlOutput' = h
             /\ UNCHANGED << sent, error >>
  /\ UNCHANGED << draupnirVars, outputVars, other, node, sizeLimit, markdownWalker, htmlWalker,
                  currentMarkdownNode, currentHtmlNode, eventIds >>

\* Mutant of PushEventId: the id is put in front of the list.
PushEventId_Unshift(ids, id) == <<id>> \o ids

\* eventIds.push(id)
PushEventId(ids, id) == Append(ids, id)

\* Mutant of SendResolves: the id the callback resolved with is not kept.
SendResolves_NoPush ==
  /\ pc \in {"awaitLoop", "awaitFinal"}
  /\ \E id \in EventIds :
       sent' = [sent EXCEPT ![Len(sent)].outcome = "resolved",
                            ![Len(sent)].id = id]
  /\ pc' = IF pc = "awaitLoop" THEN "incrementMarkdown" ELSE "returned"
  /\ UNCHANGED << draupnirVars, outputVars, other, node, sizeLimit, markdownOutput, htmlOutput, markdownWalker,
                  htmlWalker, currentMarkdownNode, currentHtmlNode, error,
                  eventIds >>

\* eventIds.push(await cb(...)): the callback resolves with an event id.

SendResolves ==
  /\ pc \in {"awaitLoop", "awaitFinal"}
  /\ \E id \in EventIds :
       /\ eventIds' = PushEventId(eventIds, id)
       /\ sent' = [sent EXCEPT ![Len(sent)].outcome = "resolved",
                               ![Len(sent)].id = id]
  /\ pc' = IF pc = "awaitLoop" THEN "incrementMarkdown" ELSE "returned"
  /\ UNCHANGED << draupnirVars, outputVars, other, node, sizeLimit, markdownOutput, htmlOutput, markdownWalker,
                  htmlWalker, currentMarkdownNode, currentHtmlNode, error >>

\* Mutant of SendRejects: the rejection is swallowed and the render goes on.
SendRejects_Swallowed ==
  /\ pc \in {"awaitLoop", "awaitFinal"}
  /\ sent' = [sent EXCEPT ![Len(sent)].outcome = "rejected"]
  /\ pc' = IF pc = "awaitLoop" THEN "incrementMarkdown" ELSE "returned"
  /\ UNCHANGED << draupnirVars, outputVars, other, node, sizeLimit, markdownOutput, htmlOutput, markdownWalker,
                  htmlWalker, currentMarkdownNode, currentHtmlNode, eventIds,
                  error >>

\* await cb(...): the callback rejects, and renderMatrix rejects with it.
SendRejects ==
  /\ pc \in {"awaitLoop", "awaitFinal"}
  /\ sent' = [sent EXCEPT ![Len(sent)].outcome = "rejected"]
  /\ pc' = "thrown"
  /\ error' = "send rejected"
  /\ UNCHANGED << draupnirVars, outputVars, other, node, sizeLimit, markdownOutput, htmlOutput, markdownWalker,
                  htmlWalker, currentMarkdownNode, currentHtmlNode, eventIds >>

Next ==
  \/ Start
  \/ IncrementMarkdown
  \/ IncrementHtml
  \/ CheckEqual
  \/ While
  \/ Flush
  \/ SendResolves
  \/ SendRejects

Spec == Init /\ [][Next]_vars

\* renderMatrix over a pair of walkers of any two modes, which may disagree
\* on the fringe of the tree.
LockstepTrees == { tr \in Trees : tr.n <= LockstepNodes /\ tr.tag[1] = "Root" }

InitLockstep ==
  /\ node \in LockstepTrees
  /\ sizeLimit \in SizeLimits
  /\ pc = "start"
  /\ markdownOutput = NewStream
  /\ htmlOutput = NewStream
  /\ \E m \in WalkerModes : markdownWalker = [NewWalker EXCEPT !.mode = m]
  /\ \E m \in WalkerModes : htmlWalker = [NewWalker EXCEPT !.mode = m]
  /\ currentMarkdownNode = NoNode
  /\ currentHtmlNode = NoNode
  /\ eventIds = << >>
  /\ sent = << >>
  /\ error = "none"
  /\ other = NewInvocation
  /\ DraupnirConstructed(FALSE)
  /\ OutputConstructed

SpecLockstep == InitLockstep /\ [][Next]_vars

\* renderMatrix with pages that hold the whole rendering of the tree: both
\* walkers walk the whole tree, whatever its size.
InitWalk ==
  /\ Init
  /\ sizeLimit = LargeLimit

SpecWalk == InitWalk /\ [][Next]_vars

\* renderMatrix with a thread that runs on and a send callback that settles:
\* a step that can be taken is taken.
InitFair ==
  /\ node \in LockstepTrees
  /\ Init

SpecFair == InitFair /\ [][Next]_vars /\ WF_vars(Next)

\* Mutant of Switch: the two invocations work on the same pair of streams.
Switch_SharedStreams ==
  /\ pc \in {"start", "awaitLoop", "awaitFinal", "returned", "thrown"}
  /\ other.pc \notin {"returned", "thrown"}
  /\ other' = [ pc |-> pc, markdownOutput |-> markdownOutput,
                htmlOutput |-> htmlOutput, markdownWalker |-> markdownWalker,
                htmlWalker |-> htmlWalker,
                currentMarkdownNode |-> currentMarkdownNode,
                currentHtmlNode |-> currentHtmlNode, eventIds |-> eventIds,
                sent |-> sent, error |-> error ]
  /\ pc' = other.pc
  /\ markdownWalker' = other.markdownWalker
  /\ htmlWalker' = other.htmlWalker
  /\ currentMarkdownNode' = other.currentMarkdownNode
  /\ currentHtmlNode' = other.currentHtmlNode
  /\ eventIds' = other.eventIds
  /\ sent' = other.sent
  /\ error' = other.error
  /\ UNCHANGED << draupnirVars, outputVars, node, sizeLimit, markdownOutput,
                  htmlOutput >>

\* Two invocations of renderMatrix on the same tree.  The invocation that
\* runs leaves the thread where it awaits the send callback, or when it is
\* over; the other invocation then starts, or goes on from its own await.
\* Each invocation has its own streams, walkers, nodes and ids.
Switch ==
  /\ pc \in {"start", "awaitLoop", "awaitFinal", "returned", "thrown"}
  /\ other.pc \notin {"returned", "thrown"}
  /\ other' = [ pc |-> pc, markdownOutput |-> markdownOutput,
                htmlOutput |-> htmlOutput, markdownWalker |-> markdownWalker,
                htmlWalker |-> htmlWalker,
                currentMarkdownNode |-> currentMarkdownNode,
                currentHtmlNode |-> currentHtmlNode, eventIds |-> eventIds,
                sent |-> sent, error |-> error ]
  /\ pc' = other.pc
  /\ markdownOutput' = other.markdownOutput
  /\ htmlOutput' = other.htmlOutput
  /\ markdownWalker' = other.markdownWalker
  /\ htmlWalker' = other.htmlWalker
  /\ currentMarkdownNode' = other.currentMarkdownNode
  /\ currentHtmlNode' = other.currentHtmlNode
  /\ eventIds' = other.eventIds
  /\ sent' = other.sent
  /\ error' = other.error
  /\ UNCHANGED << draupnirVars, outputVars, node, sizeLimit >>

NextConcurrent ==
  \/ Next
  \/ Switch

InitConcurrent ==
  /\ node \in LockstepTrees
  /\ Init

SpecConcurrent == InitConcurrent /\ [][NextConcurrent]_vars

\* ------------------------------------------------------------------ Draupnir
managementRoomID == "!management:example.org"
clientUserID == "@draupnir:example.org"

\* The rooms timeline events come from, and the rooms of the protected
\* rooms set.
Rooms == {managementRoomID, "!protected:example.org", "!elsewhere:example.org"}
ProtectedRooms == {"!protected:example.org"}

\* The body of a message that could not be decrypted.
UnableToDecrypt ==
  "** Unable to decrypt: The sender's device has not sent us the keys for this message. **"

\* The timeline events: room messages with a text or another content and
\* their body, invitations, and an event that is neither.
TimelineEvents ==
  { [type |-> "m.room.message", msgtype |-> mt, body |-> b] :
      mt \in {"m.text", "m.notice"}, b \in {UnableToDecrypt, "!draupnir status"} }
  \cup { [type |-> "m.room.member", membership |-> "invite", state_key |-> u] :
           u \in {clientUserID, "@someone:example.org"} }
  \cup { [type |-> "m.reaction"] }

\* Value.Check(MembershipEvent, event) && isInvitationForUser(event, user)
isInvitationForUser(event, user) ==
  /\ event.type = "m.room.member"
  /\ event.membership = "invite"
  /\ event.state_key = user

\* Value.Check(RoomMessage, event) &&
\* Value.Check(TextMessageContent, event.content)
IsTextMessage(event) == event.type = "m.room.message" /\ event.msgtype = "m.text"

\* Mutant of managementRoomMessageListener: the room of the event is not
\* looked at.
managementRoomMessageListener_AnyRoom(roomID, event) ==
  IF IsTextMessage(event) /\ event.body = UnableToDecrypt
  THEN [handleCommandMessageEvent |-> 0, reportManager |-> 0,
        addReactionToEvent |-> 3]
  ELSE [handleCommandMessageEvent |-> IF IsTextMessage(event) THEN 1 ELSE 0,
        reportManager |-> 1, addReactionToEvent |-> 0]

\* managementRoomMessageListener: how often it invokes the command
\* dispatcher, the report manager and addReactionToEvent.
managementRoomMessageListener(roomID, event) ==
  IF roomID # managementRoomID
  THEN [handleCommandMessageEvent |-> 0, reportManager |-> 0,
        addReactionToEvent |-> 0]
  ELSE IF IsTextMessage(event) /\ event.body = UnableToDecrypt
  THEN [handleCommandMessageEvent |-> 0, reportManager |-> 0,
        addReactionToEvent |-> 3]
  ELSE [handleCommandMessageEvent |-> IF IsTextMessage(event) THEN 1 ELSE 0,
        reportManager |-> 1, addReactionToEvent |-> 0]

\* handleTimelineEvent, called n times with the event: what was invoked.
handleTimelineEvent(roomID, event, n) ==
  LET m == managementRoomMessageListener(roomID, event)
  IN [ roomID |-> roomID, event |-> event, calls |-> n,
       handleExternalInvite |->
         IF isInvitationForUser(event, clientUserID) THEN n ELSE 0,
       handleCommandMessageEvent |-> n * m.handleCommandMessageEvent,
       reportManager |-> n * m.reportManager,
       addReactionToEvent |-> n * m.addReactionToEvent,
       reactionHandler |-> n,
       protectedRoomsSet |-> IF roomID \in ProtectedRooms THEN n ELSE 0 ]

InitDraupnir ==
  /\ node = MakeTree(1, <<0>>, <<1>>, "Root")
  /\ sizeLimit = LargeLimit
  /\ pc = "start"
  /\ markdownOutput = NewStream
  /\ htmlOutput = NewStream
  /\ markdownWalker = NewWalker
  /\ htmlWalker = NewWalker
  /\ currentMarkdownNode = NoNode
  /\ currentHtmlNode = NoNode
  /\ eventIds = << >>
  /\ sent = << >>
  /\ error = "none"
  /\ other = NewInvocation
  /\ \E pollReports \in BOOLEAN : DraupnirConstructed(pollReports)
  /\ OutputConstructed

\* start(), up to its await: the listener is registered on clientRooms (an
\* emitter keeps every registration, also of a listener it has already);
\* with a report poller the call awaits the report poll setting.
DraupnirStart ==
  /\ listeners < MaxStarts
  /\ starting < MaxStarts
  /\ listeners' = listeners + 1
  /\ starting' = IF reportPoller # "absent" THEN starting + 1 ELSE starting
  /\ lastCall' = "start"
  /\ UNCHANGED << reportPoller, handled, renderVars, outputVars >>

\* start(), after its await: the report poller is started.
DraupnirStartResumes ==
  /\ starting > 0
  /\ starting' = starting - 1
  /\ reportPoller' = "running"
  /\ UNCHANGED << listeners, lastCall, handled, renderVars, outputVars >>

\* stop(): one registration of the listener is removed, if there is one,
\* and the report poller, if there is one, is stopped.
DraupnirStop ==
  /\ lastCall # "none"
  /\ listeners' = IF listeners > 0 THEN listeners - 1 ELSE 0
  /\ reportPoller' = IF reportPoller = "absent" THEN "absent" ELSE "stopped"
  /\ lastCall' = "stop"
  /\ UNCHANGED << starting, handled, renderVars, outputVars >>

\* clientRooms emits a timeline event: every registration of the listener
\* is called with it.
EmitTimeline ==
  /\ \E roomID \in Rooms, event \in TimelineEvents :
       handled' = handleTimelineEvent(roomID, event, listeners)
  /\ UNCHANGED << listeners, reportPoller, starting, lastCall, renderVars,
                  outputVars >>

NextDraupnir ==
  \/ DraupnirStart
  \/ DraupnirStartResumes
  \/ DraupnirStop
  \/ EmitTimeline

SpecDraupnir == InitDraupnir /\ [][NextDraupnir]_vars

\* ------------------------------------------------------ ManagementRoomOutput
\* The log levels, and how far a level reaches: LogLevel.INFO.includes(level)
\* holds for the levels at least as severe as INFO.
LogLevels == <<"ERROR", "WARN", "INFO", "DEBUG", "TRACE">>

LevelSequence(level) == CHOOSE k \in 1..Len(LogLevels) : LogLevels[k] = level

Includes(level1, level2) == LevelSequence(level2) <= LevelSequence(level1)

\* levelToFn: the levels that have a log function of LogService.
levelToFn ==
  [l \in {"DEBUG", "INFO", "WARN", "ERROR"} |->
     CASE l = "DEBUG" -> "LogService.debug"
       [] l = "INFO" -> "LogService.info"
       [] l = "WARN" -> "LogService.warn"
       [] OTHER -> "LogService.error"]

\* The room ids a caller passes next to the message.
RoomIdPool == {"!a:example.org", managementRoomID}

RECURSIVE SeqsUpTo(_, _)
SeqsUpTo(S, n) ==
  IF n = 0 THEN {<< >>}
  ELSE SeqsUpTo(S, n - 1)
       \cup { Append(q, x) : q \in SeqsUpTo(S, n - 1), x \in S }

\* additionalRoomIds: string[] | string | null
AdditionalRoomIds ==
  {[kind |-> "null"]}
  \cup { [kind |-> "string", id |-> r] : r \in RoomIdPool }
  \cup { [kind |-> "array", ids |-> q] : q \in SeqsUpTo(RoomIdPool, MaxRoomIds) }

\* if (!additionalRoomIds) additionalRoomIds = [];
\* if (!Array.isArray(additionalRoomIds)) additionalRoomIds = [additionalRoomIds];
NormaliseRoomIds(a) ==
  CASE a.kind = "null" -> << >>
    [] a.kind = "string" -> << a.id >>
    [] OTHER -> a.ids

\* new Set(roomIds): every id once, in the order of its first occurrence.
RECURSIVE SetOf(_)
SetOf(q) ==
  IF q = << >> THEN << >>
  ELSE LET rest == SetOf(SubSeq(q, 1, Len(q) - 1))
           last == q[Len(q)]
       IN IF \E k \in 1..Len(rest) : rest[k] = last THEN rest
          ELSE Append(rest, last)

\* The frames of the logMessage calls on the stack.
LogMessageDepth(frames) ==
  Cardinality({ k \in 1..Len(frames) : frames[k].fn = "logMessage" })

\* Mutant of isRecursiveOfNestedCall: the nested call does not say that it
\* is recursive.
isRecursiveOfNestedCall_Unset == FALSE

\* The isRecursive argument of the logMessage call in the catch block of
\* replaceRoomIdsWithPills.
isRecursiveOfNestedCall == TRUE

\* clientMessage: the message with the mark of its level.
ClientMessage(level, message) ==
  CASE level = "WARN" -> <<"warning sign | ", message>>
    [] level = "ERROR" -> <<"double exclamation mark | ", message>>
    [] OTHER -> <<message>>

\* The entry of logMessage up to its first await: the frames it puts on the
\* stack and what it captures for Sentry.
EnterLogMessage(level, module, message, additional, isRecursive, verboseLogging) ==
  LET frame == [fn |-> "logMessage", level |-> level, module |-> module,
                message |-> message, isRecursive |-> isRecursive,
                pc |-> "logFunction", roomIds |-> << >>,
                content |-> [body |-> <<message>>, pills |-> << >>]]
      roomIds == <<managementRoomID>> \o NormaliseRoomIds(additional)
  IN [ captured |-> IF level = "ERROR"
                    THEN << [kind |-> "message", module |-> module,
                             message |-> message] >>
                    ELSE << >>,
       frames |->
         IF verboseLogging \/ Includes("INFO", level)
         THEN IF ~isRecursive
              THEN << [frame EXCEPT !.pc = "replaceRoomIdsWithPills"],
                      [frame EXCEPT !.fn = "replaceRoomIdsWithPills",
                                    !.pc = "getPublishedAlias",
                                    !.roomIds = SetOf(roomIds),
                                    !.content.body =
                                       ClientMessage(level, message)] >>
              ELSE << [frame EXCEPT !.pc = "sendMessage"] >>
         ELSE << frame >> ]

InitOutput ==
  /\ node = MakeTree(1, <<0>>, <<1>>, "Root")
  /\ sizeLimit = LargeLimit
  /\ pc = "start"
  /\ markdownOutput = NewStream
  /\ htmlOutput = NewStream
  /\ markdownWalker = NewWalker
  /\ htmlWalker = NewWalker
  /\ currentMarkdownNode = NoNode
  /\ currentHtmlNode = NoNode
  /\ eventIds = << >>
  /\ sent = << >>
  /\ error = "none"
  /\ other = NewInvocation
  /\ DraupnirConstructed(FALSE)
  /\ OutputConstructed

\* logMessage(level, module, message, additionalRoomIds, isRecursive) is
\* called on a ManagementRoomOutput with config.verboseLogging.
LogMessage ==
  /\ result = "idle"
  /\ \E level \in {LogLevels[k] : k \in 1..Len(LogLevels)},
        additional \in AdditionalRoomIds,
        isRecursive \in BOOLEAN,
        verboseLogging \in BOOLEAN :
       LET e == EnterLogMessage(level, "Module", "Message", additional,
                                isRecursive, verboseLogging)
       IN /\ call' = [level |-> level, module |-> "Module",
                      message |-> "Message",
                      additionalRoomIds |-> NormaliseRoomIds(additional),
                      isRecursive |-> isRecursive,
                      verboseLogging |-> verboseLogging]
          /\ stack' = e.frames
          /\ sentry' = e.captured
  /\ result' = "running"
  /\ UNCHANGED << console, roomMessages, renderVars, draupnirVars >>

\* replaceRoomIdsWithPills, one room id of the loop: the alias is looked up
\* and put in the place of the room id; a lookup that fails is reported by
\* a nested logMessage.  After the last room id the content is returned to
\* logMessage.
GetPublishedAlias ==
  /\ stack # << >>
  /\ LET top == Len(stack)
         f == stack[top]
     IN /\ f.fn = "replaceRoomIdsWithPills"
        /\ f.pc = "getPublishedAlias"
        /\ IF f.roomIds = << >>
           THEN /\ stack' = [SubSeq(stack, 1, top - 1) EXCEPT
                               ![top - 1].pc = "sendMessage",
                               ![top - 1].content = f.content]
                /\ UNCHANGED sentry
           ELSE \E outcome \in {"alias", "none", "rejects"} :
                  IF outcome = "rejects"
                  THEN LET e == EnterLogMessage("WARN", "utils",
                                  "Failed to resolve room alias", [kind |-> "null"],
                                  isRecursiveOfNestedCall, call.verboseLogging)
                       IN /\ stack' = [stack EXCEPT ![top].pc = "catch"] \o e.frames
                          /\ sentry' = sentry \o e.captured
                  ELSE /\ stack' = [stack EXCEPT
                              ![top].roomIds = Tail(@),
                              ![top].content.pills = Append(@,
                                 << Head(f.roomIds),
                                    IF outcome = "alias" THEN "#alias:example.org"
                                    ELSE Head(f.roomIds) >>)]
                       /\ UNCHANGED sentry
  /\ UNCHANGED << call, console, roomMessages, result, renderVars, draupnirVars >>

\* replaceRoomIdsWithPills, the catch block after the nested logMessage:
\* LogService.warn, and the room id stands for its alias.
AliasFailureLogged ==
  /\ stack # << >>
  /\ LET top == Len(stack)
         f == stack[top]
     IN /\ f.fn = "replaceRoomIdsWithPills"
        /\ f.pc = "catch"
        /\ console' = Append(console,
              [fn |-> "LogService.warn", module |-> "ManagementRoomOutput",
               message |-> "Failed resolving room alias when formatting a message",
               depth |-> 0])
        /\ stack' = [stack EXCEPT
              ![top].pc = "getPublishedAlias",
              ![top].roomIds = Tail(@),
              ![top].content.pills = Append(@, << Head(f.roomIds), Head(f.roomIds) >>)]
  /\ UNCHANGED << call, roomMessages, sentry, result, renderVars, draupnirVars >>

\* Mutant of SendMessage: a failure of sendMessage leaves logMessage.
SendMessage_Propagates ==
  /\ stack # << >>
  /\ LET top == Len(stack)
         f == stack[top]
     IN /\ f.fn = "logMessage"
        /\ f.pc = "sendMessage"
        /\ \E ok \in BOOLEAN :
             /\ roomMessages' = Append(roomMessages,
                   [content |-> f.content, ok |-> ok, depth |-> LogMessageDepth(stack)])
             /\ IF ok
                THEN /\ stack' = [stack EXCEPT ![top].pc = "logFunction"]
                     /\ UNCHANGED result
                ELSE /\ stack' = << >>
                     /\ result' = "thrown"
  /\ UNCHANGED << call, console, sentry, renderVars, draupnirVars >>

\* await client.sendMessage(this.managementRoomID, evContent) in its try:
\* a failure is captured for Sentry, and logMessage goes on.
SendMessage ==
  /\ stack # << >>
  /\ LET top == Len(stack)
         f == stack[top]
     IN /\ f.fn = "logMessage"
        /\ f.pc = "sendMessage"
        /\ \E ok \in BOOLEAN :
             /\ roomMessages' = Append(roomMessages,
                   [content |-> f.content, ok |-> ok, depth |-> LogMessageDepth(stack)])
             /\ sentry' = IF ok THEN sentry
                          ELSE Append(sentry, [kind |-> "exception",
                                               module |-> f.module,
                                               message |-> f.message])
        /\ stack' = [stack EXCEPT ![top].pc = "logFunction"]
  /\ UNCHANGED << call, console, result, renderVars, draupnirVars >>

\* The end of logMessage: the log function of the level is looked up and
\* called; without one a TypeError is thrown, which no caller catches.
LogFunction ==
  /\ stack # << >>
  /\ LET top == Len(stack)
         f == stack[top]
     IN /\ f.fn = "logMessage"
        /\ f.pc = "logFunction"
        /\ IF f.level \notin DOMAIN levelToFn
           THEN /\ stack' = << >>
                /\ result' = "thrown"
                /\ UNCHANGED console
           ELSE /\ console' = Append(console,
                      [fn |-> levelToFn[f.level], module |-> f.module,
                       message |-> f.message, depth |-> LogMessageDepth(stack)])
                /\ stack' = SubSeq(stack, 1, top - 1)
                /\ result' = IF top = 1 THEN "returned" ELSE result
  /\ UNCHANGED << call, roomMessages, sentry, renderVars, draupnirVars >>

NextOutput ==
  \/ LogMessage
  \/ GetPublishedAlias
  \/ AliasFailureLogged
  \/ SendMessage
  \/ LogFunction

SpecOutput == InitOutput /\ [][NextOutput]_vars

\* Every await of logMessage settles.
SpecOutputFair == InitOutput /\ [][NextOutput]_vars /\ WF_vars(NextOutput)

\* ------------------------------------------------------------------ claims
\* What the send callback was passed, in send order.  A page that readPage
\* did not return (undefined) contributes no text.
PlainSent == Flatten([k \in 1..Len(sent) |-> PageText(sent[k].text.segs)])
RichSent == Flatten([k \in 1..Len(sent) |-> PageText(sent[k].html.segs)])

IsPrefix(a, b) == Len(a) <= Len(b) /\ SubSeq(b, 1, Len(a)) = a

\* The nodes whose committed output a page holds (NoNode: text that was
\* forced into the page without a commit).
Nodes(segs) == { segs[k].node : k \in 1..Len(segs) }

\* The node passed to renderMatrix has tag Root.
HasRootTag == node.tag[1] = "Root"

\* The number of increment calls made on both walkers.
Increments == markdownWalker.calls + htmlWalker.calls

C2_SameSpan ==
  \A k \in 1..Len(sent) : Nodes(sent[k].text.segs) = Nodes(sent[k].html.segs)

\* C3: every page passed to the send callback, in either format, ends at a
\* commit point of its stream: it holds no text that was not committed.
C3_CutAtCommit ==
  \A k \in 1..Len(sent) :
    NoNode \notin Nodes(sent[k].text.segs) \cup Nodes(sent[k].html.segs)

\* Both pages of the k-th send are within the size limit.
PageWithinLimit(k) ==
  /\ Size(sent[k].text.segs) <= sizeLimit
  /\ Size(sent[k].html.segs) <= sizeLimit

\* C4: no page passed to the send callback is longer than the size limit,
\* and the cut point of every page, forced or not, is a commit point.
C4_PageSizeAndCut ==
  \A k \in 1..Len(sent) :
    /\ PageWithinLimit(k)
    /\ NoNode \notin Nodes(sent[k].text.segs)
    /\ NoNode \notin Nodes(sent[k].html.segs)

\* C4, the size bound alone: it holds in every reachable state.
C4_PageSize == \A k \in 1..Len(sent) : PageWithinLimit(k)

\* C5: when the node passed to renderMatrix is not a Root, renderMatrix
\* throws the structural TypeError as its first step: no walker is ever
\* incremented, nothing is appended or committed, nothing is sent.
C5_NoRoot ==
  ~HasRootTag =>
    /\ pc \in {"start", "thrown"}
    /\ pc = "thrown" => error = "TypeError: no root"
    /\ Increments = 0
    /\ markdownOutput = NewStream /\ htmlOutput = NewStream
    /\ sent = << >> /\ eventIds = << >>

C5_Witness == ~HasRootTag /\ pc = "thrown" /\ node.n > 1

\* C6: a rejected send is the last one: renderMatrix has thrown that
\* rejection, no walker was incremented after the invocation was made, and
\* the sends before it stay resolved.
C6_SendFailureStops ==
  \A k \in 1..Len(sent) :
    sent[k].outcome = "rejected" =>
      /\ k = Len(sent)
      /\ pc = "thrown" /\ error = "send rejected"
      /\ Increments = sent[k].increments
      /\ \A j \in 1..(k - 1) : sent[j].outcome = "resolved"

C6_Witness ==
  /\ Len(sent) >= 2
  /\ sent[Len(sent)].outcome = "rejected"
  /\ markdownWalker.pos < Len(Fringe(node, 1))

\* C7: when the k-th send is rejected, renderMatrix has thrown and exactly
\* the k-1 event ids of the sends before it have been collected.
C7_IdsBeforeFailure ==
  error = "send rejected" =>
    /\ pc = "thrown"
    /\ Len(eventIds) = Len(sent) - 1
    /\ \A j \in 1..Len(eventIds) : eventIds[j] = sent[j].id

C7_Witness ==
  /\ error = "send rejected"
  /\ Len(sent) = 2 /\ Len(eventIds) = 1
  /\ markdownWalker.pos < Len(Fringe(node, 1))

\* C8: at most one invocation of the send callback is in flight, it is the
\* last one made, and while it is in flight no walker is incremented, no
\* page is read and no further invocation is made.
C8_OneInFlight ==
  \A k \in 1..Len(sent) :
    sent[k].outcome = "inflight" =>
      /\ k = Len(sent)
      /\ pc \in {"awaitLoop", "awaitFinal"}
      /\ Increments = sent[k].increments

C8_NoReadAhead ==
  /\ []C8_OneInFlight
  /\ [][(Len(sent) > 0 /\ sent[Len(sent)].outcome = "inflight") =>
         /\ markdownWalker' = markdownWalker /\ htmlWalker' = htmlWalker
         /\ markdownOutput' = markdownOutput /\ htmlOutput' = htmlOutput
         /\ Len(sent') = Len(sent)]_vars

C8_Witness == pc = "awaitLoop" /\ Len(sent) = 2

\* C9: when renderMatrix returns, the list it returns holds one event id
\* per invocation of the send callback, the id that invocation resolved
\* with, in invocation order.
C9_ReturnedIds ==
  pc = "returned" =>
    /\ Len(eventIds) = Len(sent)
    /\ \A k \in 1..Len(sent) :
         sent[k].outcome = "resolved" /\ eventIds[k] = sent[k].id

C9_Witness ==
  /\ pc = "returned"
  /\ Len(sent) >= 2
  /\ eventIds[1] # eventIds[2]

\* The whole rendering of the tree is below the size limit in both formats.
BelowLimit ==
  /\ Len(FullRendering(MARKDOWN_RENDERER, node)) < sizeLimit
  /\ Len(FullRendering(HTML_RENDERER, node)) < sizeLimit

OneFullPage ==
  /\ Len(sent) = 1
  /\ sent[1].text.defined /\ sent[1].html.defined
  /\ PageText(sent[1].text.segs) = FullRendering(MARKDOWN_RENDERER, node)
  /\ PageText(sent[1].html.segs) = FullRendering(HTML_RENDERER, node)

\* C10 as stated: a Root tree whose rendering is below the limit in both
\* formats is sent as exactly one page holding both full renderings.
C10_Original ==
  (HasRootTag /\ BelowLimit /\ pc = "returned") => OneFullPage

\* C10 as amended: the same, for a tree whose rendering is not empty in
\* either format; and no second send is ever made for such a tree.
C10_OnePage ==
  (/\ HasRootTag /\ BelowLimit
   /\ FullRendering(MARKDOWN_RENDERER, node) # << >>
   /\ FullRendering(HTML_RENDERER, node) # << >>) =>
    /\ Len(sent) <= 1
    /\ pc = "returned" => OneFullPage

\* Root > [Paragraph > [Text], Paragraph > [Text]], sent as one page.
C10_Witness ==
  /\ pc = "returned" /\ BelowLimit
  /\ node.n = 5
  /\ node.parent = <<0, 1, 2, 1, 4>>
  /\ node.tag = <<"Root", "Paragraph", "Text", "Paragraph", "Text">>
  /\ OneFullPage

\* Root > [Paragraph > [Text], Paragraph > [Text]].
TwoParagraphs ==
  /\ node.n = 5
  /\ node.parent = <<0, 1, 2, 1, 4>>
  /\ node.tag = <<"Root", "Paragraph", "Text", "Paragraph", "Text">>

\* The limit holds the rendering of each paragraph alone in both formats,
\* and does not hold the rendering of both in some format.
SplitLimit ==
  /\ \A r \in {MARKDOWN_RENDERER, HTML_RENDERER} : \A i \in {2, 4} :
       Len(RenderNode(r, node, i)) <= sizeLimit
  /\ \E r \in {MARKDOWN_RENDERER, HTML_RENDERER} :
       Len(FullRendering(r, node)) > sizeLimit

\* The k-th send holds the rendering of paragraph i, and nothing else, in
\* both formats.
SendsParagraph(k, i) ==
  /\ sent[k].text.defined /\ sent[k].html.defined
  /\ PageText(sent[k].text.segs) = RenderNode(MARKDOWN_RENDERER, node, i)
  /\ PageText(sent[k].html.segs) = RenderNode(HTML_RENDERER, node, i)

\* C11: for two paragraphs and a limit that holds each alone and forces a
\* split, renderMatrix sends exactly two pages: the first paragraph in both
\* formats, then the second paragraph in both formats.
C11_TwoPages ==
  (TwoParagraphs /\ SplitLimit /\ pc = "returned") =>
    /\ Len(sent) = 2
    /\ SendsParagraph(1, 2)
    /\ SendsParagraph(2, 4)

\* C11 for the limits at which the html stream is full exactly at the end
\* of the first paragraph.
C11_ExactLimit ==
  (/\ TwoParagraphs /\ pc = "returned"
   /\ Len(RenderNode(HTML_RENDERER, node, 2)) = sizeLimit
   /\ Len(RenderNode(HTML_RENDERER, node, 4)) = sizeLimit) =>
    /\ Len(sent) = 2
    /\ SendsParagraph(1, 2)
    /\ SendsParagraph(2, 4)

\* ---------------------------------------------------------------- lockstep
\* The pair of increments was compared and renderMatrix went on.
PairAccepted == pc \in {"while", "awaitLoop", "flush", "awaitFinal", "returned"}

\* C12: after every pair of increments renderMatrix asserts that both walkers
\* processed the same node in the same phase: a pair that agrees on the node
\* and differs in the phase is not accepted.
C12_SamePhase ==
  PairAccepted => markdownWalker.phase = htmlWalker.phase

\* What the code asserts: an accepted pair agrees on the node.
C12_SameNode ==
  PairAccepted => currentMarkdownNode = currentHtmlNode

\* A completed pair of increments yielded two different nodes (the terminal
\* marker counts as a node of its own).
DivergentPair ==
  /\ markdownWalker.calls = htmlWalker.calls
  /\ currentMarkdownNode # currentHtmlNode
  /\ error \notin {"TypeError: commit too large", "TypeError: walker exhausted"}

\* C13: when a pair of increments yields different nodes, renderMatrix fails
\* at once with the internal-consistency error: it goes no further than the
\* comparison, and no send was started at or after the divergent pair.
C13_FailFast ==
  DivergentPair =>
    /\ pc = "checkEqual" \/ (pc = "thrown" /\ error = "TypeError: walker bug")
    /\ \A k \in 1..Len(sent) :
         /\ sent[k].increments < Increments
         /\ sent[k].outcome = "resolved"

\* A page was sent, then the html walker ended while the markdown walker
\* yielded a node, and renderMatrix threw.
C13_Witness ==
  /\ DivergentPair
  /\ pc = "thrown"
  /\ currentHtmlNode = NoNode
  /\ currentMarkdownNode # NoNode
  /\ Len(sent) > 0

\* C18: renderMatrix never calls increment on a walker that has returned the
\* terminal marker: a walker that is done was called once more than it has
\* events, whether renderMatrix returned, failed in a send or failed in the
\* comparison of the walkers.
C18_NoIncrementPastTerminal ==
  /\ error # "TypeError: walker exhausted"
  /\ markdownWalker.done => markdownWalker.calls = markdownWalker.pos + 1
  /\ htmlWalker.done => htmlWalker.calls = htmlWalker.pos + 1

\* The markdown walker ended before the html walker, and renderMatrix
\* stopped without another increment.
C18_Witness ==
  /\ markdownWalker.done
  /\ ~htmlWalker.done
  /\ pc = "thrown"
  /\ markdownWalker.calls = htmlWalker.calls

\* ------------------------------------------------------------------- flush
\* The stream holds no text: no ready page, no committed and no pending text.
Drained(s) == s.pages = << >> /\ Size(s.cur) = 0 /\ s.pending = << >>

\* C14: when renderMatrix returns, neither stream holds unsent content:
\* everything appended to the two streams was passed to the send callback.
C14_NothingUnsent ==
  pc = "returned" => Drained(markdownOutput) /\ Drained(htmlOutput)

\* renderMatrix returned after a send in the loop and the last send.
C14_Witness ==
  /\ pc = "returned"
  /\ Len(sent) >= 2
  /\ Drained(markdownOutput) /\ Drained(htmlOutput)

\* The tree renders to the empty text in both formats.
NoContent ==
  /\ FullRendering(MARKDOWN_RENDERER, node) = << >>
  /\ FullRendering(HTML_RENDERER, node) = << >>

\* C15: for a document without renderable content in either format the send
\* callback is never invoked, and renderMatrix returns the empty list of ids.
C15_NoContentNoSend ==
  (HasRootTag /\ NoContent) =>
    /\ sent = << >>
    /\ eventIds = << >>
    /\ pc # "thrown"

\* renderMatrix returned for a document without renderable content.
C15_Witness == HasRootTag /\ NoContent /\ pc = "returned"

\* ------------------------------------------------------------ atomic nodes
\* The size of the text rendered before node i is entered.
RECURSIVE SizeBefore(_, _, _, _)
SizeBefore(renderer, tr, fr, i) ==
  IF fr = << >> \/ Head(fr).node = i THEN 0
  ELSE Len(IF Head(fr).phase = "exit" THEN OnExit(renderer, tr, Head(fr).node)
           ELSE OnEnter(renderer, tr, Head(fr).node))
       + SizeBefore(renderer, tr, Tail(fr), i)

\* The size of the first k pages passed to the send callback in a format.
RECURSIVE SentSize(_, _)
SentSize(renderer, k) ==
  IF k = 0 THEN 0
  ELSE SentSize(renderer, k - 1)
       + Size(IF renderer = MARKDOWN_RENDERER THEN sent[k].text.segs
              ELSE sent[k].html.segs)

\* A page of the format ends inside the rendering of node i: after the
\* first character of its opening marker and before the last character of
\* its closing marker.
SplitInside(renderer, i) ==
  LET from == SizeBefore(renderer, node, Fringe(node, 1), i)
      to == from + Len(RenderNode(renderer, node, i))
  IN \E k \in 1..Len(sent) :
       from < SentSize(renderer, k) /\ SentSize(renderer, k) < to

\* The rendering of node i fits in one page in both formats.
FitsInPage(i) ==
  /\ Len(RenderNode(MARKDOWN_RENDERER, node, i)) <= sizeLimit
  /\ Len(RenderNode(HTML_RENDERER, node, i)) <= sizeLimit

\* C16: an atomic node (Bold) whose opening marker, content and closing
\* marker fit within the page limit is never split: both markers are in the
\* same page, in each format.
C16_AtomicUnsplit ==
  HasRootTag =>
    \A i \in 1..node.n :
      (node.tag[i] \in AtomicTags /\ FitsInPage(i)) =>
        /\ ~SplitInside(MARKDOWN_RENDERER, i)
        /\ ~SplitInside(HTML_RENDERER, i)

\* ------------------------------------------------------------ FringeWalker
\* The events a walker has processed, in the order it reported them.
Reported(w) == SubSeq(WalkerFringe(w.mode, node), 1, w.pos)

\* The positions at which the events report the entry (the exit) of node i;
\* the one event of a leaf is both.
Entries(ev, i) ==
  { k \in 1..Len(ev) : ev[k].node = i /\ ev[k].phase \in {"enter", "leaf"} }
Exits(ev, i) ==
  { k \in 1..Len(ev) : ev[k].node = i /\ ev[k].phase \in {"exit", "leaf"} }

\* Every node at most once for entry and at most once for exit, a leaf in
\* one event and a container in two; all nodes once the walker is done.
OncePerPhase(w) ==
  LET ev == Reported(w)
  IN /\ \A k \in 1..Len(ev) : ev[k].node \in 1..node.n
     /\ \A i \in 1..node.n :
          /\ Cardinality(Entries(ev, i)) <= 1
          /\ Cardinality(Exits(ev, i)) <= 1
          /\ IF IsLeaf(node, i) THEN Entries(ev, i) = Exits(ev, i)
             ELSE Entries(ev, i) \cap Exits(ev, i) = {}
          /\ w.done => Cardinality(Entries(ev, i)) = 1 /\ Cardinality(Exits(ev, i)) = 1

\* Depth first, in document order: a node is entered after its parent and
\* after every node before it in the document was entered; it is left
\* after its entry, after all its children were left, and before its parent.
DepthFirst(w) ==
  LET ev == Reported(w)
  IN \A k \in 1..Len(ev) :
       LET i == ev[k].node
       IN /\ k \in Entries(ev, i) =>
               /\ \A j \in 1..(i - 1) : \E l \in Entries(ev, j) : l < k
               /\ \A j \in (i + 1)..node.n : \A l \in Entries(ev, j) : k < l
               /\ node.parent[i] # 0 =>
                    /\ \E l \in Entries(ev, node.parent[i]) : l < k
                    /\ \A l \in Exits(ev, node.parent[i]) : k < l
          /\ k \in Exits(ev, i) =>
               /\ \E l \in Entries(ev, i) : l <= k
               /\ \A j \in 1..node.n :
                    node.parent[j] = i => \E l \in Exits(ev, j) : l < k

\* The terminal marker is returned only after the exit of the root, and the
\* node a walker returns is the node of the event it processed.
TerminalLast(w, returned) ==
  LET ev == Reported(w)
  IN /\ w.done => ev # << >> /\ ev[Len(ev)] = [node |-> 1, phase |-> "exit"]
     /\ w.done => returned = NoNode
     /\ (~w.done /\ w.pos > 0) => returned = ev[w.pos].node

\* A walker after one of its increments: the node it returned is the node
\* of the event it processed, and once it returned the terminal marker it
\* has reported the whole tree.
WalkedInOrder(w, returned) ==
  /\ TerminalLast(w, returned)
  /\ w.done => OncePerPhase(w) /\ DepthFirst(w)

C20_Pairs ==
  /\ htmlWalker.calls <= markdownWalker.calls
  /\ markdownWalker.calls <= htmlWalker.calls + 1
  /\ pc \in {"while", "awaitLoop", "flush", "awaitFinal", "returned"} =>
       markdownWalker.calls = htmlWalker.calls
  /\ \A k \in 1..Len(sent) : sent[k].increments % 2 = 0

\* Two pages were sent, the second several pairs of increments after the
\* first.
C20_Witness ==
  /\ Len(sent) >= 2
  /\ sent[2].increments >= sent[1].increments + 4
  /\ markdownWalker.calls = htmlWalker.calls

\* ------------------------------------------------------- two invocations
\* The pages one invocation passes to the send callback when it runs alone
\* and every send resolves: renderMatrix from a pair of increments on, as a
\* function of its walkers and streams and of the pages it has sent.
RECURSIVE AloneFrom(_, _, _, _, _, _, _)
AloneFrom(tr, limit, mw, hw, mo, ho, pages) ==
  LET m == Increment(mw, MARKDOWN_RENDERER, tr, mo, limit)
      h == Increment(hw, HTML_RENDERER, tr, ho, limit)
      he == EnsureNewPage(h.output, limit)
      me == EnsureNewPage(m.output, limit)
      page == [text |-> ReadPage(me).page, html |-> ReadPage(he).page]
  IN IF m.output.failed \/ m.misuse \/ h.output.failed \/ h.misuse
       THEN pages
     ELSE IF ~checkEqual(h.node, m.node)
       THEN pages
     ELSE IF ~WhileTest(h.node)
       THEN IF ~he.failed /\ ~me.failed /\ SomePeekPage(he, me)
            THEN Append(pages, page) ELSE pages
     ELSE IF ~SomePeekPage(h.output, m.output)
       THEN AloneFrom(tr, limit, m.walker, h.walker, m.output, h.output, pages)
     ELSE IF he.failed \/ me.failed
       THEN pages
     ELSE AloneFrom(tr, limit, m.walker, h.walker, ReadPage(me).stream,
                    ReadPage(he).stream, Append(pages, page))

AlonePages(tr, limit) ==
  IF ~RootCheck(tr) THEN << >>
  ELSE AloneFrom(tr, limit, NewWalker, NewWalker, NewStream, NewStream, << >>)

\* The pages and the ids of the sends of an invocation.
PagesOf(sends) ==
  [k \in 1..Len(sends) |-> [text |-> sends[k].text, html |-> sends[k].html]]
IdsOf(sends) == [k \in 1..Len(sends) |-> sends[k].id]

\* An invocation has sent the pages it sends alone, as far as it has come,
\* and all of them when it has returned, with the ids of its own sends.
AsAlone(invocation) ==
  /\ IsPrefix(PagesOf(invocation.sent), AlonePages(node, sizeLimit))
  /\ invocation.pc = "returned" =>
       /\ PagesOf(invocation.sent) = AlonePages(node, sizeLimit)
       /\ invocation.eventIds = IdsOf(invocation.sent)

\* C17: two invocations of renderMatrix on the same tree, interleaved where
\* they await the send callback, each produce the sequence of pages and the
\* list of ids they produce alone.
C17_Independent ==
  /\ AsAlone(other)
  /\ AsAlone([pc |-> pc, sent |-> sent, eventIds |-> eventIds])

\* One invocation made two sends and returned while the other awaited the
\* send callback in the loop.
C17_Witness ==
  /\ pc = "returned"
  /\ Len(sent) >= 2
  /\ other.pc = "awaitLoop"
  /\ Len(other.sent) >= 1

\* ------------------------------------------------------------ pages read
\* C21: every send takes one page from each stream and both are present:
\* readPage returns a page for the plain stream and for the rich stream,
\* also for the stream that had no ready page of its own.
C21_BothPagesPresent ==
  \A k \in 1..Len(sent) : sent[k].text.defined /\ sent[k].html.defined

\* C22: right after a send in the loop neither stream has a ready page left:
\* ready pages do not stay unsent behind the page that was read.
C22_NoPageLeft ==
  pc = "awaitLoop" => ~PeekPage(markdownOutput) /\ ~PeekPage(htmlOutput)

\* ------------------------------------------------------------- termination
\* renderMatrix is over: it returned or it threw.
Terminated == pc \in {"returned", "thrown"}

\* The pairs of increments are at most the fringe events of the tree and
\* one, and the sends at most the pairs of increments and one.
StepBounds ==
  /\ markdownWalker.calls <= Len(Fringe(node, 1)) + 1
  /\ htmlWalker.calls <= Len(Fringe(node, 1)) + 1
  /\ Len(sent) <= htmlWalker.calls + 1

\* C23: for a tree with a Root root and a send callback that settles,
\* renderMatrix terminates, within the fringe events of the tree and one
\* pairs of increments, and the pairs of increments and one sends.
C23_Terminates == []StepBounds /\ <>Terminated

\* renderMatrix returned after the last pair of increments the bound allows
\* and two sends.
C23_Witness ==
  /\ HasRootTag
  /\ pc = "returned"
  /\ htmlWalker.calls = Len(Fringe(node, 1)) + 1
  /\ Len(sent) >= 2

\* ------------------------------------------------------------------ Draupnir
\* The event emitted last was a room message of the management room with
\* the body of a message that could not be decrypted.
UndecryptableInManagementRoom ==
  /\ handled.roomID = managementRoomID
  /\ handled.event.type = "m.room.message"
  /\ handled.event.body = UnableToDecrypt

\* The command dispatcher is invoked only for a text message of the
\* management room without the marker, and nothing is dispatched or
\* reported for an event of another room.
DispatchOnlyCommands ==
  /\ handled.handleCommandMessageEvent > 0 =>
       /\ handled.roomID = managementRoomID
       /\ IsTextMessage(handled.event)
       /\ handled.event.body # UnableToDecrypt
  /\ handled.roomID # managementRoomID =>
       handled.handleCommandMessageEvent = 0 /\ handled.reportManager = 0

\* C24, as stated: the command dispatcher is invoked only for a text
\* message of the management room without the marker; for a message of the
\* management room with the marker, and for an event of another room,
\* neither the command dispatcher nor the report manager is invoked.
C24_Original ==
  /\ DispatchOnlyCommands
  /\ UndecryptableInManagementRoom =>
       handled.handleCommandMessageEvent = 0 /\ handled.reportManager = 0

\* C24, amended: as stated, with the marker looked at in text messages only.
C24_TextMarker ==
  /\ DispatchOnlyCommands
  /\ (UndecryptableInManagementRoom /\ IsTextMessage(handled.event)) =>
       handled.handleCommandMessageEvent = 0 /\ handled.reportManager = 0

\* A text message with the marker reached the listener from the management
\* room.
C24_Witness ==
  /\ UndecryptableInManagementRoom
  /\ IsTextMessage(handled.event)
  /\ handled.calls = 1
  /\ handled.addReactionToEvent = 3

\* C25: when stop was the last call of start and stop, no timeline listener
\* of this Draupnir is registered on clientRooms, and the report poller, if
\* there is one, is stopped.
C25_StoppedAfterStop ==
  lastCall = "stop" => listeners = 0 /\ reportPoller # "running"

\* ------------------------------------------------------ ManagementRoomOutput
\* The calls of the log function of the level with the module and the
\* message of the logMessage call, made by that call itself.
OwnLogCalls ==
  { k \in 1..Len(console) :
      console[k] = [fn |-> levelToFn[call.level], module |-> call.module,
                    message |-> call.message, depth |-> 1] }

FailedSends == { k \in 1..Len(roomMessages) : ~roomMessages[k].ok }

\* C26: logMessage does not propagate a failure of sendMessage: the error
\* is captured, the log function of the level is still called exactly once
\* with the module and the message, and logMessage fails only when the
\* level has no log function.
C26_SendFailureContained ==
  /\ result = "thrown" => call.level \notin DOMAIN levelToFn
  /\ result = "returned" =>
       /\ call.level \in DOMAIN levelToFn
       /\ Cardinality(OwnLogCalls) = 1
  /\ Cardinality(FailedSends)
       = Cardinality({ k \in 1..Len(sentry) : sentry[k].kind = "exception" })

\* logMessage returned although its own sendMessage failed.
C26_Witness ==
  /\ result = "returned"
  /\ \E k \in FailedSends : roomMessages[k].depth = 1

\* A logMessage call that is recursive does not call
\* replaceRoomIdsWithPills, the nested calls are recursive, and there is at
\* most one of them at a time.
NestingBounded ==
  /\ LogMessageDepth(stack) <= 2
  /\ \A k \in 1..Len(stack) :
       /\ (stack[k].fn = "logMessage" /\ stack[k].isRecursive) =>
            stack[k].pc # "replaceRoomIdsWithPills"
       /\ (stack[k].fn = "logMessage" /\ k > 1) => stack[k].isRecursive

Finished == result \in {"returned", "thrown"}

\* C27: the recursion of logMessage and replaceRoomIdsWithPills is bounded:
\* the nesting depth is at most one, and logMessage terminates for every
\* set of room ids and every outcome of the alias lookups.
C27_BoundedRecursion == []NestingBounded /\ <>Finished

\* logMessage returned after two alias lookups failed, each with its own
\* nested logMessage.
C27_Witness ==
  /\ result = "returned"
  /\ Cardinality({ k \in 1..Len(console) : console[k].depth = 2 }) >= 2
====
